---- MODULE Spec2Model ----
(***************************************************************************)
(* Model of scanner.py: the per-page name / passkey heuristic              *)
(* (extract_name_and_passkey_improved), the batch driver (scan_pdf_batch)  *)
(* and the interactive menu (main).                                        *)
(*                                                                         *)
(* Text is a sequence of one-character strings.  Coordinates are integers  *)
(* and the fractional thresholds of the source (0.2, 0.8, 0.3, 0.6, 0.7,   *)
(* 0.8) are compared exactly in tenths: x > w * 0.2 is 10*x > 2*w.         *)
(***************************************************************************)
EXTENDS Integers, Sequences, FiniteSets, TLC

VARIABLES page, all_text_items, name, passkey, mpc,
          reText, reMatches, rpc,
          doc, canOpen, pdfExists, caller, choice, entries, pc, docOpen,
          output_excel_path, start_page, end_page, page_num, results,
          files, log, ret, raised, scanInvoked, everOpened

matchVars == <<page, all_text_items, name, passkey, mpc>>
regexVars == <<reText, reMatches, rpc>>
batchVars == <<doc, canOpen, pdfExists, caller, choice, entries, pc, docOpen,
               output_excel_path, start_page, end_page, page_num, results,
               files, log, ret, raised, scanInvoked, everOpened>>
vars == <<matchVars, regexVars, batchVars>>

-----------------------------------------------------------------------------
(* Bounds of the model *)
MaxSpans == 3
MaxChunks == 4
MaxPages == 3

-----------------------------------------------------------------------------
(* Characters and strings *)
UpperSeq == <<"A","B","C","D","E","F","G","H","I","J","K","L","M",
              "N","O","P","Q","R","S","T","U","V","W","X","Y","Z">>
LowerSeq == <<"a","b","c","d","e","f","g","h","i","j","k","l","m",
              "n","o","p","q","r","s","t","u","v","w","x","y","z">>
DigitSeq == <<"0","1","2","3","4","5","6","7","8","9">>

Range(s) == {s[i] : i \in DOMAIN s}
Upper == Range(UpperSeq)
Lower == Range(LowerSeq)
Digits == Range(DigitSeq)
\* what str.strip() removes and the regex class \s matches
Whitespace == {" ", "\t"}

\* str.lower() on one character
LowerChar(c) ==
    IF c \in Upper THEN LowerSeq[CHOOSE i \in DOMAIN UpperSeq : UpperSeq[i] = c]
    ELSE c
StrLower(t) == [i \in DOMAIN t |-> LowerChar(t[i])]

RECURSIVE LStrip(_)
LStrip(t) ==
    IF t = <<>> THEN t
    ELSE IF Head(t) \in Whitespace THEN LStrip(Tail(t)) ELSE t
RECURSIVE RStrip(_)
RStrip(t) ==
    IF t = <<>> THEN t
    ELSE IF t[Len(t)] \in Whitespace THEN RStrip(SubSeq(t, 1, Len(t) - 1)) ELSE t
\* str.strip()
Strip(t) == RStrip(LStrip(t))

\* sub in t
Contains(t, sub) ==
    \E i \in 1..(Len(t) - Len(sub) + 1) : SubSeq(t, i, i + Len(sub) - 1) = sub

-----------------------------------------------------------------------------
(* Name rule, lines 42-54 *)
MinFontSize == 15
MinNameLen == 5
NameXLoTenths == 2
NameXHiTenths == 8
NameYLoTenths == 3
NameYHiTenths == 6

SkipWords ==
    { <<"b","a","c","h","e","l","o","r">>,
      <<"s","c","i","e","n","c","e">>,
      <<"h","o","s","p","i","t","a","l","i","t","y">>,
      <<"m","a","n","a","g","e","m","e","n","t">>,
      <<"p","h","i","l","i","p","p","i","n","e","s">> ,
      <<"m","a","n","i","l","a">>,
      <<"g","r","e","e","t","i","n","g","s">> }

\* re.match(r'^[A-Za-z\s\.]+$', text)
NamePatternMatch(t) ==
    /\ Len(t) >= 1
    /\ \A i \in DOMAIN t : t[i] \in Upper \cup Lower \cup Whitespace \cup {"."}

\* the condition of the if at lines 47-52
IsNameCandidate(item, page_width, page_height) ==
    /\ item.font_size > MinFontSize
    /\ 10 * item.x > page_width * NameXLoTenths
    /\ 10 * item.x < page_width * NameXHiTenths
    /\ 10 * item.y > page_height * NameYLoTenths
    /\ 10 * item.y < page_height * NameYHiTenths
    /\ NamePatternMatch(item.text)
    /\ Len(item.text) > MinNameLen
    /\ ~ \E skip \in SkipWords : Contains(StrLower(item.text), skip)

\* variant without the break at line 54: a later candidate overwrites the name
RECURSIVE FindNameFrom_NoBreak(_, _, _, _)
FindNameFrom_NoBreak(items, i, page_width, page_height) ==
    IF i > Len(items) THEN <<>>
    ELSE LET rest == FindNameFrom_NoBreak(items, i + 1, page_width, page_height)
         IN IF rest # <<>> THEN rest
            ELSE IF IsNameCandidate(items[i], page_width, page_height)
                 THEN items[i].text ELSE <<>>

\* the for loop at lines 43-54, from index i on; name stays "" without a hit
RECURSIVE FindNameFrom(_, _, _, _)
FindNameFrom(items, i, page_width, page_height) ==
    IF i > Len(items) THEN <<>>
    ELSE IF IsNameCandidate(items[i], page_width, page_height) THEN items[i].text
    ELSE FindNameFrom(items, i + 1, page_width, page_height)

-----------------------------------------------------------------------------
(* Passkey rule, lines 56-67 *)
PasskeyMinLen == 6
PasskeyMaxLen == 12
PasskeyXTenths == 7
PasskeyYTenths == 8

\* \w of the regex engine
IsWordChar(c) == c \in Upper \cup Lower \cup Digits \cup {"_"}
\* [A-Z0-9]
IsKeyChar(c) == c \in Upper \cup Digits

\* \b at the gap before position i (1-based; i = Len(t)+1 is the end)
WordBoundary(t, i) ==
    LET before == i > 1 /\ IsWordChar(t[i - 1])
        after == i <= Len(t) /\ IsWordChar(t[i])
    IN before # after

\* variant of the pattern without the closing \b
MatchLengthsAt_NoClosingBoundary(t, i) ==
    { n \in PasskeyMinLen..PasskeyMaxLen :
        /\ i + n - 1 <= Len(t)
        /\ \A k \in i..(i + n - 1) : IsKeyChar(t[k])
        /\ WordBoundary(t, i) }

\* lengths n with which \b[A-Z0-9]{6,12}\b matches at position i
MatchLengthsAt(t, i) ==
    { n \in PasskeyMinLen..PasskeyMaxLen :
        /\ i + n - 1 <= Len(t)
        /\ \A k \in i..(i + n - 1) : IsKeyChar(t[k])
        /\ WordBoundary(t, i)
        /\ WordBoundary(t, i + n) }

MaxOf(S) == CHOOSE m \in S : \A k \in S : k <= m
MinOf(S) == CHOOSE m \in S : \A k \in S : m <= k

\* re.findall(passkey_pattern, t): leftmost, greedy, non-overlapping
RECURSIVE FindAllFrom(_, _)
FindAllFrom(t, i) ==
    IF i > Len(t) THEN <<>>
    ELSE IF MatchLengthsAt(t, i) # {}
         THEN LET n == MaxOf(MatchLengthsAt(t, i))
              IN <<SubSeq(t, i, i + n - 1)>> \o FindAllFrom(t, i + n)
         ELSE FindAllFrom(t, i + 1)
FindAll(t) == FindAllFrom(t, 1)

\* the condition of the if at lines 61-62
InPasskeyArea(item, page_width, page_height) ==
    /\ 10 * item.x > page_width * PasskeyXTenths
    /\ 10 * item.y > page_height * PasskeyYTenths

\* variant with the break outside the "if matches": the first fragment in the
\* area ends the search whether or not it holds a code
RECURSIVE FindPasskeyFrom_BreakEarly(_, _, _, _)
FindPasskeyFrom_BreakEarly(items, i, page_width, page_height) ==
    IF i > Len(items) THEN <<>>
    ELSE IF InPasskeyArea(items[i], page_width, page_height)
         THEN (IF FindAll(items[i].text) # <<>>
               THEN FindAll(items[i].text)[1] ELSE <<>>)
         ELSE FindPasskeyFrom_BreakEarly(items, i + 1, page_width, page_height)

\* the for loop at lines 59-67, from index i on
RECURSIVE FindPasskeyFrom(_, _, _, _)
FindPasskeyFrom(items, i, page_width, page_height) ==
    IF i > Len(items) THEN <<>>
    ELSE IF /\ InPasskeyArea(items[i], page_width, page_height)
            /\ FindAll(items[i].text) # <<>>
         THEN FindAll(items[i].text)[1]
         ELSE FindPasskeyFrom(items, i + 1, page_width, page_height)

-----------------------------------------------------------------------------
(* Text extraction, lines 20-40 *)

\* span.get('size', 0)
SpanSize(span) == IF "size" \in DOMAIN span THEN span.size ELSE 0

\* lines 27-37 for one span: zero or one item
SpanItems(span) ==
    LET text_content == Strip(span.text)
    IN IF text_content # <<>>
       THEN << [text |-> text_content,
                x |-> span.bbox[1],
                y |-> span.bbox[2],
                width |-> span.bbox[3] - span.bbox[1],
                height |-> span.bbox[4] - span.bbox[2],
                font_size |-> SpanSize(span)] >>
       ELSE <<>>

RECURSIVE LineItems(_)
LineItems(spans) ==
    IF spans = <<>> THEN <<>>
    ELSE SpanItems(Head(spans)) \o LineItems(Tail(spans))

RECURSIVE LinesItems(_)
LinesItems(lines) ==
    IF lines = <<>> THEN <<>>
    ELSE LineItems(Head(lines).spans) \o LinesItems(Tail(lines))

\* lines 23-37: blocks without a "lines" key are passed over
RECURSIVE BlocksItems(_)
BlocksItems(blocks) ==
    IF blocks = <<>> THEN <<>>
    ELSE (IF "lines" \in DOMAIN Head(blocks)
          THEN LinesItems(Head(blocks).lines) ELSE <<>>)
         \o BlocksItems(Tail(blocks))

\* variant of an unstable sort: e goes before the elements with the same y
RECURSIVE InsertByY_Unstable(_, _)
InsertByY_Unstable(sorted, e) ==
    IF sorted = <<>> THEN <<e>>
    ELSE IF Head(sorted).y < e.y
         THEN <<Head(sorted)>> \o InsertByY_Unstable(Tail(sorted), e)
         ELSE <<e>> \o sorted

\* list.sort(key = y) is stable: e goes after every element with y <= e.y
RECURSIVE InsertByY(_, _)
InsertByY(sorted, e) ==
    IF sorted = <<>> THEN <<e>>
    ELSE IF Head(sorted).y <= e.y
         THEN <<Head(sorted)>> \o InsertByY(Tail(sorted), e)
         ELSE <<e>> \o sorted
RECURSIVE SortByY(_)
SortByY(items) ==
    IF items = <<>> THEN <<>>
    ELSE InsertByY(SortByY(SubSeq(items, 1, Len(items) - 1)), items[Len(items)])

\* extract_name_and_passkey_improved(page) as a whole
ExtractNameAndPasskey(p) ==
    LET items == SortByY(BlocksItems(p.blocks))
    IN [name |-> FindNameFrom(items, 1, p.width, p.height),
        passkey |-> FindPasskeyFrom(items, 1, p.width, p.height)]

-----------------------------------------------------------------------------
(* Pages the matcher is run on *)
T_AnaCruzPadded == <<" ","A","n","a"," ","C","r","u","z"," ">>
T_AnaCruz == <<"A","n","a"," ","C","r","u","z">>
T_DrLi == <<"D","r","."," ","L","i">>
T_Bachelor == <<"B","a","c","h","e","l","o","r"," ","o","f"," ","S","c","i","e","n","c","e">>
T_AnaC == <<"A","n","a"," ","C">>
T_AnaCruz2 == <<"A","n","a"," ","C","r","u","z"," ","2">>
T_AnaTabCruz == <<"A","n","a","\t","C","r","u","z">>
T_Code == <<"C","O","D","E",":"," ","A","B","1","2","C","D","3","4">>
T_Underscore == <<"A","B","1","2","C","D","3","4","_","X">>
T_Short == <<"Z","Z","9","9","Z","Z">>
T_Blank == <<" "," "," ">>

Sp(t, x, y, s) == [text |-> t, bbox |-> <<x, y, x + 3, y + 1>>, size |-> s]
SpNoSize(t, x, y) == [text |-> t, bbox |-> <<x, y, x + 3, y + 1>>]

SpanPool ==
    { Sp(T_AnaCruzPadded, 8, 8, 18),
      Sp(T_DrLi, 10, 10, 16),
      Sp(T_Bachelor, 8, 7, 20),
      Sp(T_AnaCruz, 8, 8, 15),
      Sp(T_AnaCruz, 8, 12, 18),
      Sp(T_AnaC, 8, 8, 18),
      Sp(T_AnaCruz2, 8, 9, 18),
      Sp(T_AnaTabCruz, 8, 9, 18),
      Sp(T_Code, 17, 18, 10),
      Sp(T_Underscore, 15, 18, 10),
      SpNoSize(T_Short, 14, 18),
      Sp(T_Blank, 8, 8, 18) }

PageDims == { <<20, 20>> }

SpanSeqs(n) == UNION { [1..k -> SpanPool] : k \in 0..n }

ImageBlock == [type |-> 1]
TextBlock(lines) == [type |-> 0, lines |-> lines]
LineOf(spans) == [spans |-> spans]

\* ways the renderer may group the same spans into blocks and lines: all in
\* one line of one block; one line per span in one block; an image block,
\* then a block with the first span, then a block with one line per other span
Layouts == {"oneLine", "blocksAndLines"}
OneLineEach(spans) == [i \in 1..Len(spans) |-> LineOf(<< spans[i] >>)]
Blocks(spans, layout) ==
    CASE layout = "oneLine" -> << TextBlock(<< LineOf(spans) >>) >>
      [] layout = "oneBlock" -> << TextBlock(OneLineEach(spans)) >>
      [] layout = "blocksAndLines" ->
            IF spans = <<>> THEN << ImageBlock >>
            ELSE << ImageBlock,
                    TextBlock(OneLineEach(<< Head(spans) >>)),
                    TextBlock(OneLineEach(Tail(spans))) >>

Pages ==
    { [width |-> d[1], height |-> d[2], blocks |-> Blocks(s, l)] :
        d \in PageDims, s \in SpanSeqs(MaxSpans), l \in Layouts }

NoPage == [width |-> 0, height |-> 0, blocks |-> <<>>]

IdleMatch ==
    /\ page = NoPage /\ all_text_items = <<>> /\ name = <<>> /\ passkey = <<>>
    /\ mpc = "off"
IdleRegex == reText = <<>> /\ reMatches = <<>> /\ rpc = "off"
IdleBatch ==
    /\ doc = <<>> /\ canOpen = FALSE /\ pdfExists = FALSE /\ caller = "none"
    /\ choice = "" /\ entries = <<>> /\ pc = "off" /\ docOpen = FALSE
    /\ output_excel_path = <<>> /\ start_page = 0 /\ end_page = 0
    /\ page_num = 0 /\ results = <<>> /\ files = <<>> /\ log = <<>>
    /\ ret = "unset" /\ raised = "none" /\ scanInvoked = FALSE
    /\ everOpened = FALSE

-----------------------------------------------------------------------------
(* extract_name_and_passkey_improved, step by step *)
InitMatch ==
    /\ page \in Pages
    /\ all_text_items = <<>> /\ name = <<>> /\ passkey = <<>>
    /\ mpc = "start"
    /\ IdleRegex /\ IdleBatch

\* lines 20-37
Extract ==
    /\ mpc = "start"
    /\ all_text_items' = BlocksItems(page.blocks)
    /\ mpc' = "extracted"
    /\ UNCHANGED <<page, name, passkey, regexVars, batchVars>>

\* line 40
Sort ==
    /\ mpc = "extracted"
    /\ all_text_items' = SortByY(all_text_items)
    /\ mpc' = "sorted"
    /\ UNCHANGED <<page, name, passkey, regexVars, batchVars>>

\* lines 43-54
FindName ==
    /\ mpc = "sorted"
    /\ name' = FindNameFrom(all_text_items, 1, page.width, page.height)
    /\ mpc' = "named"
    /\ UNCHANGED <<page, all_text_items, passkey, regexVars, batchVars>>

\* lines 57-69
FindPasskey ==
    /\ mpc = "named"
    /\ passkey' = FindPasskeyFrom(all_text_items, 1, page.width, page.height)
    /\ mpc' = "done"
    /\ UNCHANGED <<page, all_text_items, name, regexVars, batchVars>>

NextMatch == Extract \/ Sort \/ FindName \/ FindPasskey
SpecMatch == InitMatch /\ [][NextMatch]_vars

-----------------------------------------------------------------------------
(* Properties of the matcher *)
Searched == mpc \in {"sorted", "named", "done"}

\* C1, restated: the conditions a fragment must meet to be the name
C1_Qualifies(it) ==
    /\ it.font_size >= MinFontSize + 1
    /\ 10 * it.x \in (NameXLoTenths * page.width + 1)..(NameXHiTenths * page.width - 1)
    /\ 10 * it.y \in (NameYLoTenths * page.height + 1)..(NameYHiTenths * page.height - 1)
    /\ Range(it.text) \subseteq Upper \cup Lower \cup Whitespace \cup {"."}
    /\ Len(it.text) >= MinNameLen + 1
    /\ \A w \in SkipWords :
         \A k \in 1..Len(it.text) :
            k + Len(w) - 1 > Len(it.text)
            \/ StrLower(SubSeq(it.text, k, k + Len(w) - 1)) # w
C1_Hits == { i \in 1..Len(all_text_items) : C1_Qualifies(all_text_items[i]) }

\* C1: once the name search has run, the name is the text of the first
\* fragment, in the top-to-bottom order of the list, that has font size > 15,
\* x strictly between 20% and 80% of the width, y strictly between 30% and 60%
\* of the height, only letters, white space and periods, more than 5
\* characters and no blocklisted substring in lower case; earlier fragments
\* that fail a condition are passed over, and with no such fragment the name
\* is the empty string.
C1_NameIsFirstQualifying ==
    mpc \in {"named", "done"} =>
        name = IF C1_Hits = {} THEN <<>>
               ELSE all_text_items[MinOf(C1_Hits)].text

\* a blocklisted heading above, a second candidate below, the first one chosen
C1_Witness ==
    /\ mpc = "done"
    /\ Len(all_text_items) = 3
    /\ all_text_items[1].text = T_Bachelor
    /\ C1_Hits = {2, 3}
    /\ name = all_text_items[2].text
    /\ name # all_text_items[3].text

C2_InArea(it) ==
    /\ 10 * it.x >= PasskeyXTenths * page.width + 1
    /\ 10 * it.y >= PasskeyYTenths * page.height + 1
C2_Hits ==
    { i \in 1..Len(all_text_items) :
        C2_InArea(all_text_items[i]) /\ Len(FindAll(all_text_items[i].text)) > 0 }

\* C2: the passkey comes from the first fragment, in list order, with
\* x > 70% of the width and y > 80% of the height whose text holds a passkey
\* token; fragments of the area without a token do not end the search, and
\* with no such fragment the passkey is the empty string.
C2_PasskeyFromFirstMatchingFragment ==
    mpc = "done" =>
        passkey = IF C2_Hits = {} THEN <<>>
                  ELSE Head(FindAll(all_text_items[MinOf(C2_Hits)].text))

\* a fragment of the area without a token comes first and the search goes on
C2_Witness ==
    /\ mpc = "done"
    /\ Len(all_text_items) >= 2
    /\ C2_InArea(all_text_items[1])
    /\ FindAll(all_text_items[1].text) = <<>>
    /\ C2_Hits # {} /\ MinOf(C2_Hits) > 1
    /\ passkey # <<>>

\* the spans of the page in the order the renderer reports them
RECURSIVE C9_Concat(_)
C9_Concat(ss) == IF ss = <<>> THEN <<>> ELSE Head(ss) \o C9_Concat(Tail(ss))
C9_BlockSpans(b) ==
    IF b.type = 0 THEN C9_Concat([i \in DOMAIN b.lines |-> b.lines[i].spans])
    ELSE <<>>
C9_PageSpans == C9_Concat([i \in DOMAIN page.blocks |-> C9_BlockSpans(page.blocks[i])])
C9_NonBlank(sp) == \E i \in DOMAIN sp.text : sp.text[i] \notin Whitespace
C9_Kept == SelectSeq(C9_PageSpans, C9_NonBlank)
C9_Ys == { C9_PageSpans[i].bbox[2] : i \in DOMAIN C9_PageSpans }
C9_Key(it) == <<it.text, it.x, it.y, it.font_size>>
C9_SpanKey(sp) ==
    <<Strip(sp.text), sp.bbox[1], sp.bbox[2], IF "size" \in DOMAIN sp THEN sp.size ELSE 0>>

\* C9: the list the matcher iterates over is in non-decreasing y, holds only
\* fragments whose trimmed text is non-empty, and holds every non-blank span
\* of the page exactly once, spans of equal y in their extraction order.
C9_ListSortedStableComplete ==
    Searched =>
        /\ \A i, j \in 1..Len(all_text_items) :
              i < j => all_text_items[i].y <= all_text_items[j].y
        /\ \A i \in 1..Len(all_text_items) :
              /\ all_text_items[i].text # <<>>
              /\ Strip(all_text_items[i].text) = all_text_items[i].text
        /\ Len(all_text_items) = Len(C9_Kept)
        /\ \A v \in C9_Ys :
              LET its == SelectSeq(all_text_items, LAMBDA it : it.y = v)
                  sps == SelectSeq(C9_Kept, LAMBDA sp : sp.bbox[2] = v)
              IN /\ Len(its) = Len(sps)
                 /\ \A k \in 1..Len(its) : C9_Key(its[k]) = C9_SpanKey(sps[k])

\* a blank span was dropped and the sort moved a lower fragment down
C9_Witness ==
    /\ mpc = "sorted"
    /\ Len(C9_PageSpans) = 3 /\ Len(all_text_items) = 2
    /\ all_text_items # BlocksItems(page.blocks)
    /\ all_text_items[1].y < all_text_items[2].y

-----------------------------------------------------------------------------
(* The passkey pattern on its own: re.findall at line 64, matches[0] at 66 *)
K_Six == <<"A","B","1","2","C","D">>
K_Seven == <<"E","F","3","4","G","H","5">>
Chunks == { K_Six, K_Seven, <<"Z">>, <<"_">>, <<" ">>, <<"x">>, <<":">> }

RECURSIVE JoinChunks(_)
JoinChunks(cs) == IF cs = <<>> THEN <<>> ELSE Head(cs) \o JoinChunks(Tail(cs))
ChunkTexts(n) == { JoinChunks(cs) : cs \in UNION { [1..k -> Chunks] : k \in 0..n } }

InitRegex ==
    /\ reText \in ChunkTexts(MaxChunks)
    /\ reMatches = <<>>
    /\ rpc = "start"
    /\ IdleMatch /\ IdleBatch

\* line 64
Findall ==
    /\ rpc = "start"
    /\ reMatches' = FindAll(reText)
    /\ rpc' = "done"
    /\ UNCHANGED <<reText, matchVars, batchVars>>

NextRegex == Findall
SpecRegex == InitRegex /\ [][NextRegex]_vars

\* lines 65-66: matches[0] when there is a match, else passkey stays ""
FirstMatch == IF reMatches # <<>> THEN reMatches[1] ELSE <<>>

\* the substrings <<i, n>> of t made of 6 to 12 characters of A-Z and 0-9
\* with, on each side, the edge of t or a character outside the class Inner
C3_Tokens(t, Inner(_)) ==
    { w \in (1..Len(t)) \X (PasskeyMinLen..PasskeyMaxLen) :
        /\ w[1] + w[2] - 1 <= Len(t)
        /\ \A k \in w[1]..(w[1] + w[2] - 1) : t[k] \in Upper \cup Digits
        /\ (w[1] = 1 \/ ~ Inner(t[w[1] - 1]))
        /\ (w[1] + w[2] - 1 = Len(t) \/ ~ Inner(t[w[1] + w[2]])) }
C3_First(t, Inner(_)) ==
    IF C3_Tokens(t, Inner) = {} THEN <<>>
    ELSE LET w == CHOOSE u \in C3_Tokens(t, Inner) :
                     \A v \in C3_Tokens(t, Inner) : u[1] <= v[1]
         IN SubSeq(t, w[1], w[1] + w[2] - 1)
C3_Alnum(c) == c \in Upper \cup Lower \cup Digits
C3_AlnumOrUnderscore(c) == c \in Upper \cup Lower \cup Digits \cup {"_"}

\* C3 as claimed: the passkey taken from a text is the leftmost run of 6 to 12
\* characters of A-Z and 0-9 bounded on each side by a non-alphanumeric
\* character or the edge of the text (empty when there is none).
C3_TokenBoundedByNonAlphanumeric ==
    rpc = "done" => FirstMatch = C3_First(reText, C3_Alnum)

\* C3, amended: the bounding characters must be neither alphanumeric nor an
\* underscore; a run next to an underscore is not a token.
C3_TokenBoundedByNonWord ==
    rpc = "done" => FirstMatch = C3_First(reText, C3_AlnumOrUnderscore)

\* "AB12CD_ EF34GH5": the run next to the underscore is passed over and the
\* next whole token is taken
C3_Witness ==
    /\ rpc = "done"
    /\ reText = K_Six \o <<"_", " ">> \o K_Seven
    /\ FirstMatch = K_Seven

-----------------------------------------------------------------------------
(* Documents, operator input *)

\* a page with a name and a code, a page with neither, a page that cannot be
\* rendered (page.get_text raises)
PageGood ==
    [width |-> 20, height |-> 20, renders |-> TRUE,
     blocks |-> Blocks(<< Sp(T_Bachelor, 8, 7, 20), Sp(T_AnaCruzPadded, 8, 8, 18),
                          Sp(T_Code, 17, 18, 10) >>, "oneBlock")]
PagePlain ==
    [width |-> 20, height |-> 20, renders |-> TRUE,
     blocks |-> Blocks(<< Sp(T_Bachelor, 8, 7, 20) >>, "blocksAndLines")]
PageBroken ==
    [width |-> 20, height |-> 20, renders |-> FALSE, blocks |-> <<>>]
DocPagePool == { PageGood, PagePlain, PageBroken }
Docs == UNION { [1..k -> DocPagePool] : k \in 1..MaxPages }

\* Optional argument: <<>> is None, <<v>> is the integer v
None == <<>>
Some(v) == <<v>>

StartPages == (-2)..(MaxPages + 1)
EndPages == { None } \cup { Some(v) : v \in (-1)..(MaxPages + 1) }

Choices == {"1", "2", "3", "4", "9"}
RangeEntries ==
    { <<"0">>, <<"1">>, <<"2">>, <<" ","3">>, <<"-","1">>,
      <<"x">>, <<>>, <<"2",".","5">> }

TestPages == 5
AllPages == 273

Min(a, b) == IF a <= b THEN a ELSE b

DigitVal(c) == (CHOOSE i \in DOMAIN DigitSeq : DigitSeq[i] = c) - 1
RECURSIVE DigitsValue(_, _)
DigitsValue(body, acc) ==
    IF body = <<>> THEN acc
    ELSE IF Head(body) = "_" THEN DigitsValue(Tail(body), acc)
    ELSE DigitsValue(Tail(body), 10 * acc + DigitVal(Head(body)))

\* variant that reads anything that is not a number as 0
ParseInt_Lenient(e) ==
    LET t == Strip(e)
        neg == t # <<>> /\ Head(t) = "-"
        body == IF t # <<>> /\ Head(t) \in {"+", "-"} THEN Tail(t) ELSE t
        good == /\ body # <<>>
                /\ \A i \in DOMAIN body : body[i] \in Digits
    IN IF good
       THEN [ok |-> TRUE, val |-> IF neg THEN 0 - DigitsValue(body, 0) ELSE DigitsValue(body, 0)]
       ELSE [ok |-> TRUE, val |-> 0]

\* int(s) of lines 213-214: white space trimmed, an optional sign, decimal
\* digits (single underscores allowed between digits); otherwise ValueError
ParseInt(e) ==
    LET t == Strip(e)
        neg == t # <<>> /\ Head(t) = "-"
        body == IF t # <<>> /\ Head(t) \in {"+", "-"} THEN Tail(t) ELSE t
        good == /\ body # <<>>
                /\ \A i \in DOMAIN body : body[i] \in Digits \cup {"_"}
                /\ body[1] # "_" /\ body[Len(body)] # "_"
                /\ \A i \in 1..(Len(body) - 1) : ~ (body[i] = "_" /\ body[i + 1] = "_")
    IN IF good
       THEN [ok |-> TRUE, val |-> IF neg THEN 0 - DigitsValue(body, 0) ELSE DigitsValue(body, 0)]
       ELSE [ok |-> FALSE, val |-> 0]

-----------------------------------------------------------------------------
(* main and scan_pdf_batch *)
InitBatch ==
    /\ doc \in Docs
    /\ pdfExists \in BOOLEAN
    /\ canOpen \in BOOLEAN
    /\ canOpen => pdfExists
    /\ caller = "none" /\ choice = "" /\ entries = <<>> /\ pc = "start"
    /\ docOpen = FALSE /\ output_excel_path = <<>>
    /\ start_page = 0 /\ end_page = None /\ page_num = 0
    /\ results = <<>> /\ files = <<>> /\ log = <<>>
    /\ ret = "unset" /\ raised = "none"
    /\ scanInvoked = FALSE /\ everOpened = FALSE
    /\ IdleMatch /\ IdleRegex

total_pages == Len(doc)
\* min(end_page, total_pages) once end_page has its default
Stop == IF end_page = None THEN total_pages ELSE Min(end_page[1], total_pages)

\* entry into scan_pdf_batch(pdf_path, path, s, e), line 117
CallScan(path, s, e) ==
    /\ output_excel_path' = path
    /\ start_page' = s
    /\ end_page' = e
    /\ scanInvoked' = TRUE
    /\ pc' = "scan_open"

\* scan_pdf_batch called as a function, with any arguments
DirectCall(s, e) ==
    /\ pc = "start"
    /\ caller' = "direct"
    /\ CallScan(<<"out.xlsx">>, s, e)
    /\ UNCHANGED <<doc, canOpen, pdfExists, choice, entries, docOpen, page_num,
                   results, files, log, ret, raised, everOpened, matchVars, regexVars>>

\* main, lines 175-192
MainStart ==
    /\ pc = "start"
    /\ caller' = "main"
    /\ IF pdfExists
       THEN pc' = "menu" /\ log' = log
       ELSE pc' = "exit" /\ log' = Append(log, "PDF file not found")
    /\ UNCHANGED <<doc, canOpen, pdfExists, choice, entries, docOpen,
                   output_excel_path, start_page, end_page, page_num, results,
                   files, ret, raised, scanInvoked, everOpened, matchVars, regexVars>>

\* main, lines 194-211 and 223-224
Choose(c) ==
    /\ pc = "menu"
    /\ choice' = c
    /\ CASE c = "1" ->
              /\ pc' = "preview"
              /\ UNCHANGED <<output_excel_path, start_page, end_page, scanInvoked, log>>
         [] c = "2" ->
              /\ CallScan(<<"test_5_pages.xlsx">>, 0, Some(TestPages))
              /\ log' = log
         [] c = "3" ->
              /\ CallScan(<<"extracted_names_passkeys.xlsx">>, 0, Some(AllPages))
              /\ log' = log
         [] c = "4" ->
              /\ pc' = "range"
              /\ UNCHANGED <<output_excel_path, start_page, end_page, scanInvoked, log>>
         [] OTHER ->
              /\ pc' = "exit"
              /\ log' = Append(log, "Invalid choice.")
              /\ UNCHANGED <<output_excel_path, start_page, end_page, scanInvoked>>
    /\ UNCHANGED <<doc, canOpen, pdfExists, caller, entries, docOpen, page_num,
                   results, files, ret, raised, everOpened, matchVars, regexVars>>

\* main, lines 212-216 and 220-221: the end is asked only when the start parsed
EnterRange(e1, e2) ==
    /\ pc = "range"
    /\ LET p1 == ParseInt(e1)
           p2 == ParseInt(e2)
       IN IF ~ p1.ok
          THEN /\ entries' = <<e1>>
               /\ log' = Append(log, "Invalid page numbers entered.")
               /\ pc' = "exit"
               /\ UNCHANGED <<output_excel_path, start_page, end_page, scanInvoked>>
          ELSE IF ~ p2.ok
          THEN /\ entries' = <<e1, e2>>
               /\ log' = Append(log, "Invalid page numbers entered.")
               /\ pc' = "exit"
               /\ UNCHANGED <<output_excel_path, start_page, end_page, scanInvoked>>
          ELSE /\ entries' = <<e1, e2>>
               /\ log' = log
               /\ CallScan(<<"extracted_pages_", (p1.val - 1) + 1, "_to_", p2.val, ".xlsx">>,
                           p1.val - 1, Some(p2.val))
    /\ UNCHANGED <<doc, canOpen, pdfExists, caller, choice, docOpen, page_num,
                   results, files, ret, raised, everOpened, matchVars, regexVars>>

\* preview_page_text(pdf_path, 0), lines 75-111: no handler around fitz.open,
\* and doc.close() only at the end
Preview ==
    /\ pc = "preview"
    /\ IF ~ canOpen
       THEN /\ raised' = "OpenError" /\ pc' = "crashed"
            /\ UNCHANGED <<docOpen, everOpened, log>>
       ELSE IF ~ doc[1].renders
       THEN /\ raised' = "RenderError" /\ pc' = "crashed"
            /\ docOpen' = TRUE /\ everOpened' = TRUE
            /\ log' = log
       ELSE /\ docOpen' = FALSE /\ everOpened' = TRUE
            /\ log' = Append(log, "Extracted Name and Passkey")
            /\ pc' = "exit"
            /\ raised' = raised
    /\ UNCHANGED <<doc, canOpen, pdfExists, caller, choice, entries,
                   output_excel_path, start_page, end_page, page_num, results,
                   files, ret, scanInvoked, matchVars, regexVars>>

\* variant whose handler leaves an empty output file behind before returning
OpenFails_WritesEmpty ==
    /\ pc = "scan_open"
    /\ ~ canOpen
    /\ log' = Append(log, "Error opening PDF")
    /\ files' = Append(files, [path |-> output_excel_path, columns |-> {}, rows |-> <<>>])
    /\ ret' = "None"
    /\ pc' = "scan_returned"
    /\ UNCHANGED <<doc, canOpen, pdfExists, caller, choice, entries, docOpen,
                   output_excel_path, start_page, end_page, page_num, results,
                   raised, scanInvoked, everOpened, matchVars, regexVars>>

\* scan_pdf_batch, lines 119-123: fitz.open raises
OpenFails ==
    /\ pc = "scan_open"
    /\ ~ canOpen
    /\ log' = Append(log, "Error opening PDF")
    /\ ret' = "None"
    /\ pc' = "scan_returned"
    /\ UNCHANGED <<doc, canOpen, pdfExists, caller, choice, entries, docOpen,
                   output_excel_path, start_page, end_page, page_num, results,
                   files, raised, scanInvoked, everOpened, matchVars, regexVars>>

\* scan_pdf_batch, lines 120 and 125-133
OpenOk ==
    /\ pc = "scan_open"
    /\ canOpen
    /\ docOpen' = TRUE
    /\ everOpened' = TRUE
    /\ end_page' = IF end_page = None THEN Some(total_pages) ELSE end_page
    /\ results' = <<>>
    /\ page_num' = start_page
    /\ pc' = "scan_loop"
    /\ UNCHANGED <<doc, canOpen, pdfExists, caller, choice, entries,
                   output_excel_path, start_page, files, log, ret, raised,
                   scanInvoked, matchVars, regexVars>>

\* doc[page_num]: a negative index counts from the end of the document
LoadPage(n) == doc[(n % total_pages) + 1]

\* one iteration of the loop, lines 136-150
ProcessPage ==
    /\ pc = "scan_loop"
    /\ page_num < Stop
    /\ LoadPage(page_num).renders
    /\ LET r == ExtractNameAndPasskey(LoadPage(page_num))
       IN results' = Append(results, [Page |-> page_num + 1,
                                      Name |-> r.name,
                                      Passkey |-> r.passkey])
    /\ page_num' = page_num + 1
    /\ UNCHANGED <<doc, canOpen, pdfExists, caller, choice, entries, pc, docOpen,
                   output_excel_path, start_page, end_page, files, log, ret,
                   raised, scanInvoked, everOpened, matchVars, regexVars>>

\* variant with a per-page handler that passes over a page that fails
RenderFails_Skip ==
    /\ pc = "scan_loop"
    /\ page_num < Stop
    /\ ~ LoadPage(page_num).renders
    /\ page_num' = page_num + 1
    /\ UNCHANGED <<doc, canOpen, pdfExists, caller, choice, entries, pc, docOpen,
                   output_excel_path, start_page, end_page, results, files, log,
                   ret, raised, scanInvoked, everOpened, matchVars, regexVars>>

\* lines 139-140 when the page cannot be rendered: the exception leaves
\* scan_pdf_batch (no handler, no finally) and main (which catches ValueError only)
RenderFails ==
    /\ pc = "scan_loop"
    /\ page_num < Stop
    /\ ~ LoadPage(page_num).renders
    /\ raised' = "RenderError"
    /\ pc' = "crashed"
    /\ UNCHANGED <<doc, canOpen, pdfExists, caller, choice, entries, docOpen,
                   output_excel_path, start_page, end_page, page_num, results,
                   files, log, ret, scanInvoked, everOpened, matchVars, regexVars>>

\* end of the loop and doc.close(), line 152
CloseDoc ==
    /\ pc = "scan_loop"
    /\ page_num >= Stop
    /\ docOpen' = FALSE
    /\ pc' = "scan_save"
    /\ UNCHANGED <<doc, canOpen, pdfExists, caller, choice, entries,
                   output_excel_path, start_page, end_page, page_num, results,
                   files, log, ret, raised, scanInvoked, everOpened,
                   matchVars, regexVars>>

\* pd.DataFrame(rows): the columns are the keys of the rows, none for no rows
DataFrameColumns(rows) == IF rows = <<>> THEN {} ELSE {"Page", "Name", "Passkey"}

\* lines 155-161
Save ==
    /\ pc = "scan_save"
    /\ files' = Append(files, [path |-> output_excel_path,
                               columns |-> DataFrameColumns(results),
                               rows |-> results])
    /\ log' = Append(log, "Extraction complete")
    /\ pc' = "scan_summary"
    /\ UNCHANGED <<doc, canOpen, pdfExists, caller, choice, entries, docOpen,
                   output_excel_path, start_page, end_page, page_num, results,
                   ret, raised, scanInvoked, everOpened, matchVars, regexVars>>

\* lines 164-168: df['Name'] raises KeyError when the frame has no such column
Summary ==
    /\ pc = "scan_summary"
    /\ IF "Name" \in DataFrameColumns(results)
       THEN /\ ret' = "df" /\ pc' = "scan_returned"
            /\ log' = Append(log, "Successfully extracted")
            /\ raised' = raised
       ELSE /\ raised' = "KeyError" /\ pc' = "crashed"
            /\ UNCHANGED <<ret, log>>
    /\ UNCHANGED <<doc, canOpen, pdfExists, caller, choice, entries, docOpen,
                   output_excel_path, start_page, end_page, page_num, results,
                   files, scanInvoked, everOpened, matchVars, regexVars>>

\* back in the caller: main prints the table unless it got None (lines 201-203,
\* 207-209, 217-219)
AfterScan ==
    /\ pc = "scan_returned"
    /\ log' = IF caller = "main" /\ ret # "None" THEN Append(log, "results") ELSE log
    /\ pc' = "exit"
    /\ UNCHANGED <<doc, canOpen, pdfExists, caller, choice, entries, docOpen,
                   output_excel_path, start_page, end_page, page_num, results,
                   files, ret, raised, scanInvoked, everOpened, matchVars, regexVars>>

Next ==
    \/ \E s \in StartPages, e \in EndPages : DirectCall(s, e)
    \/ MainStart
    \/ \E c \in Choices : Choose(c)
    \/ \E e1, e2 \in RangeEntries : EnterRange(e1, e2)
    \/ Preview
    \/ OpenFails
    \/ OpenOk
    \/ ProcessPage
    \/ RenderFails
    \/ CloseDoc
    \/ Save
    \/ Summary
    \/ AfterScan

Spec == InitBatch /\ [][Next]_vars

-----------------------------------------------------------------------------
(* Properties of scan_pdf_batch and main *)
Opened == scanInvoked /\ pc # "scan_open" /\ canOpen
LoopOver == Opened /\ pc \in {"scan_save", "scan_summary", "scan_returned", "exit"}
RunOver == pc \in {"exit", "crashed"}

\* the 0-based indices of the pages of the document in [start, min(end, total))
C4_PagesInRange == { i \in 0..(total_pages - 1) : start_page <= i /\ i < Stop }

\* C4: for every integer start_page and end_page, once the page loop is over
\* the rows are exactly the pages with 0-based index in
\* [start, min(end, totalPages)): as many rows as such pages, in increasing
\* page order, each Page the 1-based number of an existing page.
C4_RowsMatchRange ==
    LoopOver =>
        /\ Len(results) = Cardinality(C4_PagesInRange)
        /\ \A k \in 1..Len(results) : results[k].Page \in 1..total_pages
        /\ \A k \in 1..(Len(results) - 1) : results[k].Page < results[k + 1].Page
        /\ { results[k].Page - 1 : k \in 1..Len(results) } = C4_PagesInRange

C5_EmptyRange == Opened /\ Stop <= start_page

\* C5: with an empty page range (end before start, or start at or past the
\* page count) no row is produced and no step of the run, the steps after the
\* loop included, ends in an error.
C5_EmptyRangeCompletes ==
    C5_EmptyRange => (results = <<>> /\ raised = "none" /\ pc # "crashed")

\* C6: no run of scan_pdf_batch that opened the document ends, normally or
\* by an error, with the document still open.
C6_DocumentClosedAtEnd ==
    (scanInvoked /\ RunOver) => ~ docOpen

\* C7: when the document cannot be opened, scan_pdf_batch reports the error
\* and returns None: no page is processed, no row is accumulated, no output
\* file is written, and the run ends without an exception.
C7_OpenFailureAborts ==
    (scanInvoked /\ ~ canOpen /\ pc # "scan_open") =>
        /\ log # <<>> /\ log[Len(log)] = "Error opening PDF"
        /\ ret = "None"
        /\ results = <<>> /\ page_num = 0
        /\ files = <<>>
        /\ ~ everOpened /\ ~ docOpen
        /\ raised = "none"
        /\ pc \in {"scan_returned", "exit"}

\* option 2 of the menu on a file that exists but does not open
C7_Witness ==
    /\ scanInvoked /\ ~ canOpen /\ caller = "main" /\ choice = "2"
    /\ pc = "exit" /\ ret = "None"

\* text that int() accepts: trimmed, an optional sign, then digits, with
\* underscores only between two digits
C8_IsIntegerText(e) ==
    LET t == Strip(e)
        d == IF Len(t) >= 1 /\ t[1] \in {"+", "-"} THEN SubSeq(t, 2, Len(t)) ELSE t
    IN /\ Len(d) >= 1
       /\ \A i \in 1..Len(d) :
             \/ d[i] \in Digits
             \/ /\ d[i] = "_" /\ i > 1 /\ i < Len(d)
                /\ d[i - 1] \in Digits /\ d[i + 1] \in Digits

\* C8: in the custom range option, when the start or the end entry is not an
\* integer the error is reported, scan_pdf_batch is never invoked, the
\* document is never opened and no output file is written.
C8_InvalidRangeAborts ==
    (choice = "4" /\ \E i \in DOMAIN entries : ~ C8_IsIntegerText(entries[i])) =>
        /\ ~ scanInvoked
        /\ ~ everOpened /\ ~ docOpen
        /\ files = <<>>
        /\ pc = "exit"
        /\ raised = "none"
        /\ log = <<"Invalid page numbers entered.">>

\* a good start entry followed by an end entry that is not a number
C8_Witness ==
    /\ choice = "4" /\ Len(entries) = 2
    /\ C8_IsIntegerText(entries[1]) /\ ~ C8_IsIntegerText(entries[2])
    /\ canOpen /\ pc = "exit"

\* number of iterations the loop makes over range(start, min(end, total))
C10_RangeLen == IF Stop > start_page THEN Stop - start_page ELSE 0

\* C10: the output file is written at most once per run and only after the
\* whole requested range was processed; a page that fails to render ends the
\* run with no output file, whatever was processed before it.
C10_NoPartialOutput ==
    scanInvoked =>
        /\ Len(files) <= 1
        /\ files # <<>> =>
              /\ Opened /\ pc \notin {"scan_loop"}
              /\ Len(files[1].rows) = C10_RangeLen
              /\ files[1].rows = results
              /\ \A n \in start_page..(Stop - 1) : LoadPage(n).renders
        /\ raised = "RenderError" => (files = <<>> /\ pc = "crashed")

\* two pages processed, the third fails to render, nothing written
C10_Witness ==
    /\ scanInvoked /\ raised = "RenderError" /\ pc = "crashed"
    /\ Len(results) = 2
    /\ files = <<>>
====
